---- MODULE Spec2Model ----
(***************************************************************************)
(* Continuous discovery and recovery engine of the orchestrator            *)
(* (package logic): the deduplicated discovery queue and its worker pool,  *)
(* the election step of the health tick, the tick tasks spawned by         *)
(* ContinuousDiscovery, the non re-entrant recovery entrance and the       *)
(* SIGTERM drain of acceptSignals.                                         *)
(***************************************************************************)
EXTENDS Integers, Sequences, FiniteSets, TLC

\* ------------------------------------------------------------------ bounds
NumKeys == 2            \* valid instance keys 1..NumKeys
NumWorkers == 2         \* config.Config.DiscoveryMaxConcurrency
NumHealthTasks == 2     \* onHealthTick goroutines alive at the same time
MaxSnapshotLen == 1     \* keys waiting in snapshotDiscoveryKeys in the model
MaxOutdated == 1        \* length of a list ReadOutdatedInstanceKeys returns
NumRecoveryTasks == 2   \* recovery goroutines (line 560) alive at the same time
MaxPollSeconds == 2      \* config.Config.InstancePollSeconds at start; a reload picks
                        \* a value up to it
MaxPasses == 1          \* passes counts the finished recovery passes up to here
MaxLocks == 2           \* shard locks held at the same time
MaxTasks == 2           \* unfinished tasks of one timer at the same time
MaxSeedCallers == 1     \* injectSeeds goroutines started and not yet at seedOnce.Do
MaxSelectExprs == 2     \* expressions in the select list of a statement
MaxGroupBy == 2         \* expressions in its GROUP BY clause
MaxOrderBy == 2         \* entries in its ORDER BY clause
ShutdownWaitTime == 2   \* *shutdownWaitTime, in time units

\* ------------------------------------------------------- program constants
SnapshotCapacity == 10  \* make(chan inst.InstanceKey, 10)
SignalCapacity == 1     \* make(chan os.Signal, 1)
SleepTime == 1          \* time.Sleep(100 * time.Millisecond): one time unit
WaitFactor == 3         \* checkAndRecoverWaitPeriod := 3 * instancePollSecondsDuration()

InvalidKey == 0
Keys == 1..NumKeys
AllKeys == Keys \cup {InvalidKey}
NoKey == -1
Workers == 1..NumWorkers
HealthTasks == 1..NumHealthTasks
RecoveryTasks == 1..NumRecoveryTasks
PollChoices == 1..MaxPollSeconds
MaxTime == WaitFactor * MaxPollSeconds   \* the clock stops advancing here
NoTime == -1
\* the timers of the select loop of ContinuousDiscovery
Timers == {"healthTick", "instancePollTick", "caretakingTick", "recoveryTick",
           "snapshotTopologiesTick", "tabletTopoTick"}

VARIABLES
    proc,                       \* "running" | "crashed" (unrecovered panic) | "exited" (os.Exit)
    isElectedNode,              \* var isElectedNode int64
    calls,                      \* collaborator operations spawned by the latest step
    discoveryQueue,             \* discovery.Queue: [pending, inflight]
    snapshotDiscoveryKeys,      \* chan inst.InstanceKey
    snapshotDiscoveryKeysMutex, \* 0 when free, else the health task holding it
    wpc, wkey,                  \* discovery workers: position and instanceKey
    hpc, hwas, hkeys, hcount,   \* onHealthTick goroutines: position and locals
    helect,                     \* what AttemptElection returned to the tick; past the
                                \* election block only whether it was an error
    now,                        \* the clock; ContinuousDiscovery starts at 0
    instancePollSeconds,        \* config.Config.InstancePollSeconds
    checkAndRecoverWaitPeriod,  \* local of ContinuousDiscovery, set once
    recoveryEntrance,           \* var recoveryEntrance int64
    rpc,                        \* recovery goroutines: position
    passes,                     \* finished calls of CheckAndRecover, up to MaxPasses
    cpc,                        \* the caretaking task: position
    sigChan,                    \* c := make(chan os.Signal, 1)
    spc,                        \* the signal goroutine: position
    hasReceivedSIGTERM,         \* var hasReceivedSIGTERM int32
    autoExpire,                 \* discoveryMetrics expires its entries
    audit,                      \* inst.AuditOperation records
    shardsLockCounter,          \* var shardsLockCounter int32
    scount,                     \* count := atomic.LoadInt32(&shardsLockCounter)
    timeoutAt,                  \* when time.After(*shutdownWaitTime) fires
    wakeAt,                     \* when the latest time.Sleep ends
    dpc, dkey, dforce,          \* a call of DiscoverInstance: position and arguments
    doutcome,                   \* how the latest call of DiscoverInstance ended
    latency,                    \* latency := stopwatch.NewNamedStopwatch()
    recentDiscoveryOperationKeys,        \* *cache.Cache: key -> [at, ttl] of its marker
    discoveryMetrics,                    \* metrics appended since the latest call began
    discoveriesCounter,                  \* the three counters, counted from the
    failedDiscoveriesCounter,            \* beginning of the latest call of
    instancePollSecondsExceededCounter,  \* DiscoverInstance
    spawned,                             \* per timer: tasks the loop spawned that have
                                         \* not returned
    seedOnce,                            \* var seedOnce sync.Once: "fresh" | "running" | "done"
    seedCallers,                         \* injectSeeds goroutines not yet at seedOnce.Do
    seedRuns,                            \* runs of the function given to seedOnce.Do
    sel,                                 \* sel *sqlparser.Select given to CreateQPFromSelect
    qpResult                             \* what the call of CreateQPFromSelect produced

queueVars == <<discoveryQueue, wpc, wkey>>
healthVars == <<hpc, hwas, helect, hkeys, hcount, snapshotDiscoveryKeysMutex>>
recoveryVars == <<checkAndRecoverWaitPeriod, recoveryEntrance, rpc, passes>>
signalVars == <<sigChan, spc, hasReceivedSIGTERM, autoExpire, audit, scount, timeoutAt, wakeAt>>

dispatchVars == <<spawned>>

seedVars == <<seedOnce, seedCallers, seedRuns>>

qpVars == <<sel, qpResult>>

callVars == <<dpc, dkey, dforce, doutcome, latency, discoveryMetrics, discoveriesCounter,
              failedDiscoveriesCounter, instancePollSecondsExceededCounter>>

vars == <<proc, isElectedNode, calls, snapshotDiscoveryKeys, queueVars, healthVars,
          now, instancePollSeconds, recoveryVars, cpc, signalVars, shardsLockCounter,
          callVars, recentDiscoveryOperationKeys, dispatchVars, seedVars, qpVars>>

\* what an action of the discovery queue, its workers or a health tick leaves alone
restOfDiscovery == <<now, instancePollSeconds, recoveryVars, cpc, signalVars, shardsLockCounter,
                     callVars, recentDiscoveryOperationKeys, dispatchVars, seedVars, qpVars>>
\* what an action of a tick task or of the signal goroutine leaves alone
discoveryVars == <<snapshotDiscoveryKeys, queueVars, healthVars, callVars>>

\* ----------------------------------------------------------------- helpers
Range(s) == {s[i] : i \in 1..Len(s)}

Occurrences(s, k) == Cardinality({i \in 1..Len(s) : s[i] = k})

Min(S) == CHOOSE x \in S : \A y \in S : x <= y

RECURSIVE SetToSeq(_)
SetToSeq(S) == IF S = {} THEN <<>> ELSE <<Min(S)>> \o SetToSeq(S \ {Min(S)})

\* instanceKey.IsValid()
IsValid(k) == k # InvalidKey

IsLeader == isElectedNode = 1

IsLeaderOrActive == isElectedNode = 1

\* ------------------------------------------------------- discovery.Queue
EmptyQueue == [pending |-> <<>>, inflight |-> {}]

PushNoDedup(q, k) == [q EXCEPT !.pending = Append(@, k)]

\* push(key): enqueue unless already pending or in flight
Push(q, k) ==
    IF k \in Range(q.pending) \/ k \in q.inflight
    THEN q
    ELSE [q EXCEPT !.pending = Append(@, k)]

\* consume(): blocking pop; the key becomes in flight
CanConsume(q) == q.pending # <<>>

Consume(q) == [pending |-> Tail(q.pending), inflight |-> q.inflight \cup {Head(q.pending)}]

\* release(key): the key is no longer in flight
Release(q, k) == [q EXCEPT !.inflight = @ \ {k}]

QueueLen(q) == Len(q.pending)

\* ------------------------------------------------- collaborators' answers
\* process.AttemptElection(): elected, not elected, or an error
ElectionResults == {"won", "lost", "err"}

\* inst.ReadOutdatedInstanceKeys(): the keys due for a poll
OutdatedLists == {SetToSeq(S) : S \in {T \in SUBSET AllKeys : Cardinality(T) <= MaxOutdated}}

\* what one call of DiscoverInstance(instanceKey, false) comes to
DiscoverOutcomes == {"forgotten", "ignored", "invalid", "recent", "uptodate",
                     "probed", "failed", "panic"}

\* ------------------------------------------------------------ go-cache
\* an item of recentDiscoveryOperationKeys: when it was added and for how long
NoMarker == [at |-> NoTime, ttl |-> 0]

\* the cache's get: an item is found until the clock has passed at + ttl
Found(c, k, t) == c[k].at # NoTime /\ t <= c[k].at + c[k].ttl

\* the cache's janitor (cache.New(..., time.Second)) deletes the expired items
DeleteExpired(c, t) == [k \in DOMAIN c |-> IF Found(c, k, t) THEN c[k] ELSE NoMarker]

\* a named stopwatch with "backend", "instance" and "total", none of them started
StoppedWatch == [totalStart |-> NoTime, backendStart |-> NoTime, backend |-> 0,
                 instanceStart |-> NoTime]


\* ------------------------------------- the planner: abstract.QueryProjection
\* sqlparser.AscOrder, sqlparser.DescOrder
AscOrder == "asc"
DescOrder == "desc"
\* the fields of a sqlparser.Expr the planner looks at. A value of another type leaves
\* the fields it does not have at their zero value.
Expr(t, q, n, v, k, d) ==
    [type |-> t, Qualifier |-> q, Name |-> n, Val |-> v, Exprs |-> k, Distinct |-> d]
\* &sqlparser.ColName{Name: n, Qualifier: q}
ColName(q, n) == Expr("ColName", q, n, "", 0, FALSE)
\* &sqlparser.Literal{Type: t, Val: v}; the name holds the literal's Type
Literal(t, v) == Expr("Literal", "", t, v, 0, FALSE)
\* &sqlparser.FuncExpr{Name: n, Exprs: k arguments, Distinct: d}
FuncExpr(n, k, d) == Expr("FuncExpr", "", n, "", k, d)
\* count(a) + 1: an expression that is no FuncExpr and contains an aggregation
ComplexAggr == Expr("BinaryExpr", "", "count", "", 0, FALSE)
\* &sqlparser.AliasedExpr{Expr: e, As: as} and &sqlparser.StarExpr{}
AliasedExpr(e, as) == [type |-> "AliasedExpr", Expr |-> e, As |-> as]
StarExpr == [type |-> "StarExpr", Expr |-> ColName("", ""), As |-> ""]
\* &sqlparser.Order{Expr: e, Direction: d}
Order(e, d) == [Expr |-> e, Direction |-> d]

\* fExpr.IsAggregate()
IsAggregate(fExpr) == fExpr.Name \in {"count", "sum", "min", "max", "avg"}
\* sqlparser.ContainsAggregation(e)
ContainsAggregation(e) ==
    \/ e.type = "FuncExpr" /\ IsAggregate(e)
    \/ e = ComplexAggr
\* sqlparser.EqualsExpr(a, b): the two trees are equal node by node
EqualsExpr(a, b) == a = b
\* strconv.Atoi(literalExpr.Val), on the literals of the model
Atoi(v) == CASE v = "0" -> 0 [] v = "1" -> 1 [] v = "2" -> 2 [] v = "3" -> 3 [] OTHER -> 0

\* the expressions statements are built from
ColA == ColName("", "a")
ColB == ColName("", "b")
QualA == ColName("t", "a")
Lit1 == Literal("IntVal", "1")
Lit2 == Literal("IntVal", "2")
StrX == Literal("StrVal", "x")
CountA == FuncExpr("count", 1, FALSE)
SelectItems ==
    {AliasedExpr(e, as) : e \in {ColA, ColB, CountA}, as \in {"", "b"}}
        \cup {AliasedExpr(FuncExpr("count", 1, TRUE), ""), AliasedExpr(FuncExpr("count", 2, FALSE), ""),
              AliasedExpr(ComplexAggr, ""), StarExpr}
GroupItems == {ColA, ColB, QualA, Lit1, StrX}
OrderItems == {Order(e, d) : e \in {ColA, ColB, Lit1, Lit2}, d \in {AscOrder, DescOrder}}
SeqsOf(S, lo, hi) == UNION {[1..n -> S] : n \in lo..hi}
NoSelect == [SelectExprs |-> <<>>, GroupBy |-> <<>>, OrderBy |-> <<>>]

NoError == ""
NoQP == <<>>
\* what a call of CreateQPFromSelect produced: nothing yet, (qp, nil), (nil, err) or a
\* run-time panic
NotCalled == [status |-> "none", err |-> NoError, qp |-> NoQP]
Succeeded(qp) == [status |-> "ok", err |-> NoError, qp |-> qp]
Failed(err) == [status |-> "error", err |-> err, qp |-> NoQP]
Panicked == [status |-> "panic", err |-> NoError, qp |-> NoQP]

\* the loop over sel.SelectExprs: the expressions not yet visited and the locals so far
RECURSIVE selectLoop(_, _)
selectLoop(rest, st) ==
    IF rest = <<>> THEN st
    ELSE LET selExp == Head(rest)
             fExpr == selExp.Expr
         IN  IF selExp.type # "AliasedExpr"
             THEN [st EXCEPT !.err = "not supported: in select list"]
             ELSE IF fExpr.type = "FuncExpr" /\ IsAggregate(fExpr)
             THEN IF fExpr.Exprs # 1
                  THEN [st EXCEPT !.err = "aggregate functions take a single argument"]
                  ELSE IF fExpr.Distinct
                  THEN [st EXCEPT !.err = "not supported: distinct aggregation"]
                  ELSE selectLoop(Tail(rest),
                                  [st EXCEPT !.HasAggr = TRUE,
                                             !.SelectExprs = Append(@, [Col |-> selExp, Aggr |-> TRUE])])
             ELSE IF ContainsAggregation(selExp.Expr)
             THEN [st EXCEPT !.err = "unsupported: complex aggregate expression"]
             ELSE selectLoop(Tail(rest),
                             [st EXCEPT !.hasNonAggr = TRUE,
                                        !.SelectExprs = Append(@, [Col |-> selExp, Aggr |-> FALSE])])

\* qp.OrderExprs = append(qp.OrderExprs, OrderBy{Inner: inner, WeightStrExpr: w})
AppendOrder(qp, inner, w) ==
    [panic |-> FALSE,
     qp |-> [qp EXCEPT !.OrderExprs = Append(@, [Inner |-> inner, WeightStrExpr |-> w])]]
\* indexing qp.SelectExprs out of range ends the call in a run-time panic
IndexPanic(qp) == [panic |-> TRUE, qp |-> qp]

\* the same, with an integer literal kept as the expression ordered on
addOrderByNoOffset(qp, order) ==
    LET aliased == {i \in 1..Len(qp.SelectExprs) :
                        /\ qp.SelectExprs[i].Col.As # ""
                        /\ order.Expr.Name = qp.SelectExprs[i].Col.As}
    IN  IF order.Expr.type = "ColName" /\ order.Expr.Qualifier = "" /\ aliased # {}
        THEN LET i == CHOOSE i \in aliased : \A j \in aliased : i <= j
             IN  AppendOrder(qp, order, qp.SelectExprs[i].Col.Expr)
        ELSE AppendOrder(qp, order, order.Expr)

\* func (qp *QueryProjection) addOrderBy(order *sqlparser.Order)
addOrderBy(qp, order) ==
    IF order.Expr.type = "Literal" /\ order.Expr.Name = "IntVal"
    THEN LET num == Atoi(order.Expr.Val)
         IN  IF num - 1 \notin 0..(Len(qp.SelectExprs) - 1)
             THEN IndexPanic(qp)
             ELSE LET aliasedExpr == qp.SelectExprs[num].Col
                      expr == IF aliasedExpr.As # "" THEN ColName("", aliasedExpr.As)
                                                     ELSE aliasedExpr.Expr
                  IN  AppendOrder(qp, Order(expr, order.Direction), aliasedExpr.Expr)
    ELSE LET aliased == {i \in 1..Len(qp.SelectExprs) :
                            /\ qp.SelectExprs[i].Col.As # ""
                            /\ order.Expr.Name = qp.SelectExprs[i].Col.As}
         IN  IF order.Expr.type = "ColName" /\ order.Expr.Qualifier = "" /\ aliased # {}
             THEN LET i == CHOOSE i \in aliased : \A j \in aliased : i <= j
                  IN  AppendOrder(qp, order, qp.SelectExprs[i].Col.Expr)
             ELSE AppendOrder(qp, order, order.Expr)

\* for _, order := range sel.OrderBy { qp.addOrderBy(order) }
RECURSIVE orderLoop(_, _)
orderLoop(rest, r) ==
    IF rest = <<>> \/ r.panic THEN r
    ELSE orderLoop(Tail(rest), addOrderBy(r.qp, Head(rest)))

\* for _, expr := range qp.GroupByExprs { ... }
RECURSIVE groupLoop(_, _)
groupLoop(rest, r) ==
    IF rest = <<>> \/ r.panic THEN r
    ELSE LET expr == Head(rest)
             found == \E i \in 1..Len(r.qp.OrderExprs) :
                          EqualsExpr(expr, r.qp.OrderExprs[i].Inner.Expr)
         IN  IF found THEN groupLoop(Tail(rest), r)
             ELSE groupLoop(Tail(rest), addOrderBy(r.qp, Order(expr, AscOrder)))

\* func CreateQPFromSelect(sel *sqlparser.Select) (*QueryProjection, error)
CreateQPFromSelect(s) ==
    LET st == selectLoop(s.SelectExprs,
                         [err |-> NoError, hasNonAggr |-> FALSE, HasAggr |-> FALSE,
                          SelectExprs |-> <<>>])
    IN  IF st.err # NoError THEN Failed(st.err)
        ELSE IF st.hasNonAggr /\ st.HasAggr /\ s.GroupBy = <<>>
        THEN Failed("Mixing of aggregation and non-aggregation columns")
        ELSE LET qp == [SelectExprs |-> st.SelectExprs, HasAggr |-> st.HasAggr,
                        GroupByExprs |-> s.GroupBy, OrderExprs |-> <<>>]
                 r == groupLoop(s.GroupBy, orderLoop(s.OrderBy, [panic |-> FALSE, qp |-> qp]))
             IN  IF r.panic THEN Panicked ELSE Succeeded(r.qp)

\* what a call of the planner leaves alone
qpRest == <<proc, isElectedNode, snapshotDiscoveryKeys, queueVars, healthVars, now,
            instancePollSeconds, recoveryVars, cpc, signalVars, shardsLockCounter, callVars,
            recentDiscoveryOperationKeys, dispatchVars, seedVars>>

\* qp, err := CreateQPFromSelect(sel)
CreateQP ==
    /\ sel # NoSelect
    /\ qpResult = NotCalled
    /\ qpResult' = CreateQPFromSelect(sel)
    /\ calls' = {"CreateQPFromSelect"}
    /\ UNCHANGED <<sel, qpRest>>

\* ---------------------------------------------------------------- Init
\* the orchestrator's state after construction
InitOrchestrator ==
    /\ proc = "running"
    /\ isElectedNode = 0
    /\ calls = {}
    /\ discoveryQueue = EmptyQueue
    /\ snapshotDiscoveryKeys = <<>>
    /\ snapshotDiscoveryKeysMutex = 0
    /\ wpc = [w \in Workers |-> "consume"]
    /\ wkey = [w \in Workers |-> NoKey]
    /\ hpc = [t \in HealthTasks |-> "idle"]
    /\ hwas = [t \in HealthTasks |-> FALSE]
    /\ helect = [t \in HealthTasks |-> "none"]
    /\ hkeys = [t \in HealthTasks |-> <<>>]
    /\ hcount = [t \in HealthTasks |-> 0]
    /\ now = 0
    /\ instancePollSeconds = MaxPollSeconds
    /\ checkAndRecoverWaitPeriod = WaitFactor * instancePollSeconds
    /\ recoveryEntrance = 0
    /\ rpc = [r \in RecoveryTasks |-> "idle"]
    /\ passes = 0
    /\ cpc = "idle"
    /\ sigChan = <<>>
    /\ spc = "wait"
    /\ hasReceivedSIGTERM = 0
    /\ autoExpire = TRUE
    /\ audit = {}
    /\ shardsLockCounter = 0
    /\ scount = 0
    /\ timeoutAt = NoTime
    /\ wakeAt = NoTime
    /\ dpc = "idle"
    /\ dkey = NoKey
    /\ dforce = FALSE
    /\ doutcome = "none"
    /\ latency = StoppedWatch
    /\ recentDiscoveryOperationKeys = [k \in Keys |-> NoMarker]
    /\ discoveryMetrics = <<>>
    /\ discoveriesCounter = 0
    /\ failedDiscoveriesCounter = 0
    /\ instancePollSecondsExceededCounter = 0
    /\ spawned = [tm \in Timers |-> 0]
    /\ seedOnce = "fresh"
    /\ seedCallers = 0
    /\ seedRuns = 0

\* no statement has been given to the planner
Init ==
    /\ InitOrchestrator
    /\ sel = NoSelect
    /\ qpResult = NotCalled

\* a parsed statement is about to be given to the planner. A statement without a GROUP
\* BY clause has sel.GroupBy == nil, the empty sequence here.
InitQP ==
    /\ InitOrchestrator
    /\ \E se \in SeqsOf(SelectItems, 1, MaxSelectExprs), g \in SeqsOf(GroupItems, 0, MaxGroupBy),
          o \in SeqsOf(OrderItems, 0, MaxOrderBy) :
            sel = [SelectExprs |-> se, GroupBy |-> g, OrderBy |-> o]
    /\ qpResult = NotCalled

NextQP == CreateQP

SpecQP == InitQP /\ [][NextQP]_vars

\* ------------------------------------------------ handleDiscoveryRequests
\* instanceKey := discoveryQueue.Consume()
WorkerConsume(w) ==
    /\ proc = "running"
    /\ wpc[w] = "consume"
    /\ CanConsume(discoveryQueue)
    /\ wkey' = [wkey EXCEPT ![w] = Head(discoveryQueue.pending)]
    /\ discoveryQueue' = Consume(discoveryQueue)
    /\ wpc' = [wpc EXCEPT ![w] = "gate"]
    /\ calls' = {}
    /\ UNCHANGED <<proc, isElectedNode, snapshotDiscoveryKeys, healthVars, restOfDiscovery>>

WorkerGateEarlyRelease(w) ==
    /\ proc = "running"
    /\ wpc[w] = "gate"
    /\ discoveryQueue' = Release(discoveryQueue, wkey[w])
    /\ IF ~IsLeaderOrActive
       THEN wpc' = [wpc EXCEPT ![w] = "consume"] /\ wkey' = [wkey EXCEPT ![w] = NoKey]
       ELSE wpc' = [wpc EXCEPT ![w] = "discover"] /\ wkey' = wkey
    /\ calls' = {}
    /\ UNCHANGED <<proc, isElectedNode, snapshotDiscoveryKeys, healthVars, restOfDiscovery>>

WorkerGateRequeues(w) ==
    /\ proc = "running"
    /\ wpc[w] = "gate"
    /\ IF ~IsLeaderOrActive
       THEN /\ discoveryQueue' = PushNoDedup(Release(discoveryQueue, wkey[w]), wkey[w])
            /\ wpc' = [wpc EXCEPT ![w] = "consume"]
            /\ wkey' = [wkey EXCEPT ![w] = NoKey]
       ELSE /\ wpc' = [wpc EXCEPT ![w] = "discover"]
            /\ UNCHANGED <<discoveryQueue, wkey>>
    /\ calls' = {}
    /\ UNCHANGED <<proc, isElectedNode, snapshotDiscoveryKeys, healthVars, restOfDiscovery>>

\* if !IsLeaderOrActive() { Release; continue } else the call of DiscoverInstance starts
WorkerGate(w) ==
    /\ proc = "running"
    /\ wpc[w] = "gate"
    /\ IF ~IsLeaderOrActive
       THEN /\ discoveryQueue' = Release(discoveryQueue, wkey[w])
            /\ wpc' = [wpc EXCEPT ![w] = "consume"]
            /\ wkey' = [wkey EXCEPT ![w] = NoKey]
       ELSE /\ wpc' = [wpc EXCEPT ![w] = "discover"]
            /\ UNCHANGED <<discoveryQueue, wkey>>
    /\ calls' = {}
    /\ UNCHANGED <<proc, isElectedNode, snapshotDiscoveryKeys, healthVars, restOfDiscovery>>

\* DiscoverInstance(instanceKey, false) returns and the key is released; a panic
\* leaving DiscoverInstance unwinds the worker goroutine, which recovers nowhere:
\* line 248 is not reached and the runtime ends the process
WorkerDiscover(w) ==
    /\ proc = "running"
    /\ wpc[w] = "discover"
    /\ \E outcome \in DiscoverOutcomes :
         IF outcome = "panic"
         THEN /\ proc' = "crashed"
              /\ wpc' = [wpc EXCEPT ![w] = "dead"]
              /\ UNCHANGED <<discoveryQueue, wkey>>
         ELSE /\ discoveryQueue' = Release(discoveryQueue, wkey[w])
              /\ wpc' = [wpc EXCEPT ![w] = "consume"]
              /\ wkey' = [wkey EXCEPT ![w] = NoKey]
              /\ proc' = proc
    /\ calls' = {}
    /\ UNCHANGED <<isElectedNode, snapshotDiscoveryKeys, healthVars, restOfDiscovery>>

\* ------------------------------------------------------------ onHealthTick
\* case <-healthTick: go onHealthTick(); wasAlreadyElected := IsLeader()
HealthTickFire(t) ==
    /\ proc = "running"
    /\ hpc[t] = "idle"
    /\ hpc' = [hpc EXCEPT ![t] = "attempt"]
    /\ hwas' = [hwas EXCEPT ![t] = IsLeader]
    /\ calls' = {}
    /\ UNCHANGED <<proc, isElectedNode, queueVars, snapshotDiscoveryKeys,
                   snapshotDiscoveryKeysMutex, helect, hkeys, hcount, restOfDiscovery>>

\* process.AttemptElection() returns and isElectedNode is stored
HealthElect(t) ==
    /\ proc = "running"
    /\ hpc[t] = "attempt"
    /\ \E res \in ElectionResults :
         /\ helect' = [helect EXCEPT ![t] = res]
         /\ isElectedNode' = IF res = "won" THEN 1 ELSE 0
    /\ hpc' = [hpc EXCEPT ![t] = "gate"]
    /\ calls' = {}
    /\ UNCHANGED <<proc, queueVars, snapshotDiscoveryKeys,
                   snapshotDiscoveryKeysMutex, hwas, hkeys, hcount, restOfDiscovery>>

\* if !IsLeaderOrActive() { return }; ReadOutdatedInstanceKeys; just-became-leader tasks
HealthGate(t) ==
    /\ proc = "running"
    /\ hpc[t] = "gate"
    /\ IF ~IsLeaderOrActive
       THEN /\ hpc' = [hpc EXCEPT ![t] = "idle"]
            /\ helect' = [helect EXCEPT ![t] = "none"]
            /\ calls' = {}
            /\ hkeys' = hkeys
       ELSE /\ hpc' = [hpc EXCEPT ![t] = "lock"]
            /\ \E ks \in OutdatedLists : hkeys' = [hkeys EXCEPT ![t] = ks]
            /\ calls' = IF ~hwas[t] THEN {"RegisterNode", "ExpireMaintenance"} ELSE {}
            /\ helect' = [helect EXCEPT ![t] = IF @ = "err" THEN "err" ELSE "none"]
    /\ hwas' = [hwas EXCEPT ![t] = FALSE]
    /\ UNCHANGED <<proc, isElectedNode, queueVars, snapshotDiscoveryKeys,
                   snapshotDiscoveryKeysMutex, hcount, restOfDiscovery>>

HealthLockNoMutex(t) ==
    /\ proc = "running"
    /\ hpc[t] = "lock"
    /\ hcount' = [hcount EXCEPT ![t] = Len(snapshotDiscoveryKeys)]
    /\ hpc' = [hpc EXCEPT ![t] = "recv"]
    /\ calls' = {}
    /\ UNCHANGED <<proc, isElectedNode, queueVars, snapshotDiscoveryKeys,
                   snapshotDiscoveryKeysMutex, hwas, helect, hkeys, restOfDiscovery>>

\* snapshotDiscoveryKeysMutex.Lock(); countSnapshotKeys := len(snapshotDiscoveryKeys)
HealthLock(t) ==
    /\ proc = "running"
    /\ hpc[t] = "lock"
    /\ snapshotDiscoveryKeysMutex = 0
    /\ snapshotDiscoveryKeysMutex' = t
    /\ hcount' = [hcount EXCEPT ![t] = Len(snapshotDiscoveryKeys)]
    /\ hpc' = [hpc EXCEPT ![t] = "recv"]
    /\ calls' = {}
    /\ UNCHANGED <<proc, isElectedNode, queueVars, snapshotDiscoveryKeys,
                   hwas, helect, hkeys, restOfDiscovery>>

\* instanceKeys = append(instanceKeys, <-snapshotDiscoveryKeys)
HealthRecv(t) ==
    /\ proc = "running"
    /\ hpc[t] = "recv"
    /\ hcount[t] > 0
    /\ snapshotDiscoveryKeys # <<>>
    /\ hkeys' = [hkeys EXCEPT ![t] = Append(@, Head(snapshotDiscoveryKeys))]
    /\ snapshotDiscoveryKeys' = Tail(snapshotDiscoveryKeys)
    /\ hcount' = [hcount EXCEPT ![t] = @ - 1]
    /\ calls' = {}
    /\ UNCHANGED <<proc, isElectedNode, queueVars, snapshotDiscoveryKeysMutex,
                   hpc, hwas, helect, restOfDiscovery>>

\* defer snapshotDiscoveryKeysMutex.Unlock(); if len(instanceKeys) > 0
HealthUnlock(t) ==
    /\ proc = "running"
    /\ hpc[t] = "recv"
    /\ hcount[t] = 0
    /\ snapshotDiscoveryKeysMutex' = 0
    /\ IF hkeys[t] = <<>>
       THEN /\ hpc' = [hpc EXCEPT ![t] = "idle"]
            /\ helect' = [helect EXCEPT ![t] = "none"]
       ELSE /\ hpc' = [hpc EXCEPT ![t] = "push"]
            /\ helect' = helect
    /\ calls' = {}
    /\ UNCHANGED <<proc, isElectedNode, queueVars, snapshotDiscoveryKeys,
                   hwas, hkeys, hcount, restOfDiscovery>>

HealthPushUnchecked(t) ==
    /\ proc = "running"
    /\ hpc[t] = "push"
    /\ discoveryQueue' = Push(discoveryQueue, Head(hkeys[t]))
    /\ hkeys' = [hkeys EXCEPT ![t] = Tail(@)]
    /\ IF Tail(hkeys[t]) = <<>>
       THEN /\ hpc' = [hpc EXCEPT ![t] = "idle"]
            /\ helect' = [helect EXCEPT ![t] = "none"]
       ELSE /\ UNCHANGED <<hpc, helect>>
    /\ calls' = {}
    /\ UNCHANGED <<proc, isElectedNode, wpc, wkey, snapshotDiscoveryKeys,
                   snapshotDiscoveryKeysMutex, hwas, hcount, restOfDiscovery>>

\* for _, instanceKey := range instanceKeys { if IsValid() { discoveryQueue.Push } }
HealthPush(t) ==
    /\ proc = "running"
    /\ hpc[t] = "push"
    /\ discoveryQueue' = IF IsValid(Head(hkeys[t]))
                         THEN Push(discoveryQueue, Head(hkeys[t]))
                         ELSE discoveryQueue
    /\ hkeys' = [hkeys EXCEPT ![t] = Tail(@)]
    /\ IF Tail(hkeys[t]) = <<>>
       THEN /\ hpc' = [hpc EXCEPT ![t] = "idle"]
            /\ helect' = [helect EXCEPT ![t] = "none"]
       ELSE /\ UNCHANGED <<hpc, helect>>
    /\ calls' = {}
    /\ UNCHANGED <<proc, isElectedNode, wpc, wkey, snapshotDiscoveryKeys,
                   snapshotDiscoveryKeysMutex, hwas, hcount, restOfDiscovery>>

\* an out-of-band caller asks for the discovery of key on the snapshot channel
RequestImmediateDiscovery(k) ==
    /\ proc = "running"
    /\ Len(snapshotDiscoveryKeys) < MaxSnapshotLen
    /\ Len(snapshotDiscoveryKeys) < SnapshotCapacity
    /\ snapshotDiscoveryKeys' = Append(snapshotDiscoveryKeys, k)
    /\ calls' = {}
    /\ UNCHANGED <<proc, isElectedNode, queueVars, healthVars, restOfDiscovery>>

\* -------------------------------------------------------- DiscoverInstance
\* what a step of DiscoverInstance leaves alone
restOfCall == <<proc, isElectedNode, snapshotDiscoveryKeys, queueVars, healthVars, now,
                instancePollSeconds, recoveryVars, cpc, signalVars, shardsLockCounter,
                dispatchVars, seedVars, qpVars>>

\* the call ends before the deferred function is registered, or with it pending
Return(outcome) ==
    /\ doutcome' = outcome
    /\ dpc' = IF outcome \in {"forgotten", "ignored"} THEN "idle" ELSE "return"

\* DiscoverInstance(instanceKey, forceDiscovery) begins: InstanceIsForgotten, the
\* ignore filters, latency.Start("total") and the registration of the deferred function
DiscoverCall(k, force) ==
    /\ proc = "running"
    /\ dpc = "idle"
    /\ dkey' = k
    /\ dforce' = force
    /\ discoveryMetrics' = <<>>
    /\ discoveriesCounter' = 0
    /\ failedDiscoveriesCounter' = 0
    /\ instancePollSecondsExceededCounter' = 0
    /\ \E skip \in {"forgotten", "ignored", "no"} :
         IF skip # "no"
         THEN Return(skip) /\ latency' = StoppedWatch
         ELSE /\ dpc' = "resolve"
              /\ doutcome' = "none"
              /\ latency' = [StoppedWatch EXCEPT !.totalStart = now]
    /\ calls' = {}
    /\ UNCHANGED <<restOfCall, recentDiscoveryOperationKeys>>

DiscoverThrottleAlwaysSets ==
    /\ proc = "running"
    /\ dpc = "resolve"
    /\ IF ~IsValid(dkey)
       THEN /\ Return("invalid")
            /\ calls' = {}
            /\ UNCHANGED <<latency, recentDiscoveryOperationKeys>>
       ELSE /\ recentDiscoveryOperationKeys' =
                   [recentDiscoveryOperationKeys EXCEPT
                       ![dkey] = [at |-> now, ttl |-> instancePollSeconds]]
            /\ dpc' = "read"
            /\ doutcome' = doutcome
            /\ latency' = [latency EXCEPT !.backendStart = now]
            /\ calls' = {"ReadInstance"}
    /\ UNCHANGED <<restOfCall, dkey, dforce, discoveryMetrics, discoveriesCounter,
                   failedDiscoveriesCounter, instancePollSecondsExceededCounter>>

\* ResolveHostname, IsValid, recentDiscoveryOperationKeys.Add(key, true, poll interval):
\* Add stores the marker unless one is found, and then returns an error; the call goes
\* on to inst.ReadInstance unless it is not forced and Add returned the error
DiscoverThrottle ==
    /\ proc = "running"
    /\ dpc = "resolve"
    /\ IF ~IsValid(dkey)
       THEN /\ Return("invalid")
            /\ calls' = {}
            /\ UNCHANGED <<latency, recentDiscoveryOperationKeys>>
       ELSE LET existsInCacheError == Found(recentDiscoveryOperationKeys, dkey, now)
            IN /\ recentDiscoveryOperationKeys' =
                      IF existsInCacheError
                      THEN recentDiscoveryOperationKeys
                      ELSE [recentDiscoveryOperationKeys EXCEPT
                               ![dkey] = [at |-> now, ttl |-> instancePollSeconds]]
               /\ IF existsInCacheError /\ ~dforce
                  THEN /\ Return("recent")
                       /\ calls' = {}
                       /\ latency' = latency
                  ELSE /\ dpc' = "read"
                       /\ doutcome' = doutcome
                       /\ latency' = [latency EXCEPT !.backendStart = now]
                       /\ calls' = {"ReadInstance"}
    /\ UNCHANGED <<restOfCall, dkey, dforce, discoveryMetrics, discoveriesCounter,
                   failedDiscoveriesCounter, instancePollSecondsExceededCounter>>

\* inst.ReadInstance returns; an instance that is found, up to date and validly checked
\* is skipped unless the call is forced; else discoveriesCounter.Inc(1) and the probe,
\* inst.ReadTopologyInstanceBufferable, begins
DiscoverRead ==
    /\ proc = "running"
    /\ dpc = "read"
    /\ \E fresh \in BOOLEAN :
         IF ~dforce /\ fresh
         THEN /\ Return("uptodate")
              /\ latency' = [latency EXCEPT !.backend = now - latency.backendStart,
                                             !.backendStart = NoTime]
              /\ discoveriesCounter' = discoveriesCounter
              /\ calls' = {}
         ELSE /\ dpc' = "probe"
              /\ doutcome' = doutcome
              /\ latency' = [latency EXCEPT !.backend = now - latency.backendStart,
                                             !.backendStart = NoTime,
                                             !.instanceStart = now]
              /\ discoveriesCounter' = discoveriesCounter + 1
              /\ calls' = {"ReadTopologyInstanceBufferable"}
    /\ UNCHANGED <<restOfCall, dkey, dforce, discoveryMetrics, failedDiscoveriesCounter,
                   instancePollSecondsExceededCounter, recentDiscoveryOperationKeys>>

\* the discovery.Metric of lines 317-324 and 336-343
Metric(err) ==
    [InstanceKey |-> dkey,
     TotalLatency |-> now - latency.totalStart,
     BackendLatency |-> latency.backend,
     InstanceLatency |-> now - latency.instanceStart,
     Err |-> err]

DiscoverProbeDropsFailure ==
    /\ proc = "running"
    /\ dpc = "probe"
    /\ \E instance \in {"instance", "nil"} :
         IF instance = "nil"
         THEN /\ failedDiscoveriesCounter' = failedDiscoveriesCounter + 1
              /\ discoveryMetrics' = discoveryMetrics
              /\ Return("failed")
         ELSE /\ failedDiscoveriesCounter' = failedDiscoveriesCounter
              /\ discoveryMetrics' = Append(discoveryMetrics, Metric("none"))
              /\ Return("probed")
    /\ latency' = [latency EXCEPT !.instanceStart = NoTime]
    /\ calls' = {}
    /\ UNCHANGED <<restOfCall, dkey, dforce, discoveriesCounter,
                   instancePollSecondsExceededCounter, recentDiscoveryOperationKeys>>

\* the probe returns an instance, or nil and an error; the latencies are read and the
\* metric is appended; a nil instance also counts as a failed discovery
DiscoverProbe ==
    /\ proc = "running"
    /\ dpc = "probe"
    /\ \E instance \in {"instance", "nil"} :
         IF instance = "nil"
         THEN /\ failedDiscoveriesCounter' = failedDiscoveriesCounter + 1
              /\ discoveryMetrics' = Append(discoveryMetrics, Metric("err"))
              /\ Return("failed")
         ELSE /\ failedDiscoveriesCounter' = failedDiscoveriesCounter
              /\ discoveryMetrics' = Append(discoveryMetrics, Metric("none"))
              /\ Return("probed")
    /\ latency' = [latency EXCEPT !.instanceStart = NoTime]
    /\ calls' = {}
    /\ UNCHANGED <<restOfCall, dkey, dforce, discoveriesCounter,
                   instancePollSecondsExceededCounter, recentDiscoveryOperationKeys>>

DiscoverReturnComparesBackend ==
    /\ proc = "running"
    /\ dpc = "return"
    /\ instancePollSecondsExceededCounter' =
           IF latency.backend > instancePollSeconds
           THEN instancePollSecondsExceededCounter + 1
           ELSE instancePollSecondsExceededCounter
    /\ dpc' = "idle"
    /\ latency' = StoppedWatch
    /\ calls' = {}
    /\ UNCHANGED <<restOfCall, dkey, dforce, doutcome, discoveryMetrics, discoveriesCounter,
                   failedDiscoveriesCounter, recentDiscoveryOperationKeys>>

\* the deferred function: latency.Stop("total") and, when the call took longer than the
\* poll interval, instancePollSecondsExceededCounter.Inc(1)
DiscoverReturn ==
    /\ proc = "running"
    /\ dpc = "return"
    /\ LET discoveryTime == now - latency.totalStart
       IN instancePollSecondsExceededCounter' =
              IF discoveryTime > instancePollSeconds
              THEN instancePollSecondsExceededCounter + 1
              ELSE instancePollSecondsExceededCounter
    /\ dpc' = "idle"
    /\ latency' = StoppedWatch
    /\ calls' = {}
    /\ UNCHANGED <<restOfCall, dkey, dforce, doutcome, discoveryMetrics, discoveriesCounter,
                   failedDiscoveriesCounter, recentDiscoveryOperationKeys>>

\* the janitor goroutine of the cache runs
JanitorRun ==
    /\ proc = "running"
    /\ recentDiscoveryOperationKeys' = DeleteExpired(recentDiscoveryOperationKeys, now)
    /\ recentDiscoveryOperationKeys' # recentDiscoveryOperationKeys
    /\ calls' = {}
    /\ UNCHANGED <<restOfCall, callVars>>

\* ------------------------------------------------------------- the clock
\* the model's clock runs up to MaxTime, and past it until an armed shutdown timer fires
ClockRuns == now < MaxTime \/ (timeoutAt # NoTime /\ now < timeoutAt)

AdvanceTime ==
    /\ proc = "running"
    /\ ClockRuns
    /\ now' = now + 1
    /\ calls' = {}
    /\ UNCHANGED <<proc, isElectedNode, discoveryVars, dispatchVars, seedVars, qpVars, recentDiscoveryOperationKeys,
                   instancePollSeconds, recoveryVars, cpc, signalVars, shardsLockCounter>>

\* ------------------------------------------- ContinuousDiscovery: tick tasks
continuousDiscoveryStartTime == 0

TimeRipeCurrentPoll == now - continuousDiscoveryStartTime >= WaitFactor * instancePollSeconds

\* time.Since(continuousDiscoveryStartTime) >= checkAndRecoverWaitPeriod
runCheckAndRecoverOperationsTimeRipe ==
    now - continuousDiscoveryStartTime >= checkAndRecoverWaitPeriod

InstancePollOps == {"UpdateClusterAliases", "ExpireDowntime", "injectSeeds"}

CaretakingOps ==
    {"ReviewUnseenInstances", "InjectUnseenPrimaries", "ForgetLongUnseenInstances",
     "ForgetUnseenInstancesDifferentlyResolved", "ForgetExpiredHostnameResolves",
     "DeleteInvalidHostnameResolves", "ResolveUnknownPrimaryHostnameResolves",
     "ExpireMaintenance", "ExpireCandidateInstances", "ExpireHostnameUnresolve",
     "ExpireClusterDomainName", "ExpireAudit", "ExpirePoolInstances",
     "FlushNontrivialResolveCacheToDatabase", "ExpireStaleInstanceBinlogCoordinates",
     "ExpireNodesHistory", "ExpireAccessTokens", "ExpireAvailableNodes",
     "ExpireFailureDetectionHistory", "ExpireTopologyRecoveryHistory",
     "ExpireTopologyRecoveryStepsHistory"}

RecoveryOps ==
    {"ClearActiveFailureDetections", "ClearActiveRecoveries", "ExpireBlockedRecoveries",
     "AcknowledgeCrashedRecoveries", "ExpireInstanceAnalysisChangelog",
     "checkAndRecoverGoroutine"}

pollRest == <<proc, isElectedNode, discoveryVars, dispatchVars, recentDiscoveryOperationKeys,
              now, instancePollSeconds, signalVars, shardsLockCounter, qpVars>>

tickRest == <<pollRest, seedVars>>

\* case <-instancePollTick: if IsLeaderOrActive() { ...; go injectSeeds(&seedOnce) }
InstancePollTick ==
    /\ proc = "running"
    /\ calls' = IF IsLeaderOrActive THEN InstancePollOps ELSE {}
    /\ seedCallers' = IF IsLeaderOrActive /\ seedCallers < MaxSeedCallers
                      THEN seedCallers + 1
                      ELSE seedCallers
    /\ UNCHANGED <<pollRest, seedOnce, seedRuns, recoveryVars, cpc>>

InjectSeedsNoOnce ==
    /\ proc = "running"
    /\ seedCallers > 0
    /\ seedOnce # "running"
    /\ seedCallers' = seedCallers - 1
    /\ seedOnce' = "running"
    /\ seedRuns' = seedRuns + 1
    /\ calls' = {"InjectSeed"}
    /\ UNCHANGED <<pollRest, recoveryVars, cpc>>

\* injectSeeds: seedOnce.Do(func() { ... }). The first goroutine to get there runs the
\* function; one that arrives while it runs waits for it; one that arrives later returns
InjectSeeds ==
    /\ proc = "running"
    /\ seedCallers > 0
    /\ seedOnce # "running"
    /\ seedCallers' = seedCallers - 1
    /\ IF seedOnce = "fresh"
       THEN seedOnce' = "running" /\ seedRuns' = seedRuns + 1 /\ calls' = {"InjectSeed"}
       ELSE UNCHANGED <<seedOnce, seedRuns>> /\ calls' = {}
    /\ UNCHANGED <<pollRest, recoveryVars, cpc>>

\* the function given to seedOnce.Do has gone through config.Config.DiscoverySeeds
InjectSeedsDone ==
    /\ proc = "running"
    /\ seedOnce = "running"
    /\ seedOnce' = "done"
    /\ calls' = {}
    /\ UNCHANGED <<pollRest, seedCallers, seedRuns, recoveryVars, cpc>>

CaretakingTickUngated ==
    /\ proc = "running"
    /\ cpc = "idle"
    /\ calls' = CaretakingOps
    /\ cpc' = "kv"
    /\ UNCHANGED <<tickRest, recoveryVars>>

\* case <-caretakingTick, up to the housekeeping operations or the cache reload
CaretakingTick ==
    /\ proc = "running"
    /\ cpc = "idle"
    /\ IF IsLeaderOrActive
       THEN calls' = CaretakingOps /\ cpc' = "kv"
       ELSE calls' = {"LoadHostnameResolveCache"} /\ cpc' = cpc
    /\ UNCHANGED <<tickRest, recoveryVars>>

\* if runCheckAndRecoverOperationsTimeRipe() && IsLeader() { go SubmitPrimariesToKvStores }
CaretakingKv ==
    /\ proc = "running"
    /\ cpc = "kv"
    /\ calls' = IF runCheckAndRecoverOperationsTimeRipe /\ IsLeader
                THEN {"SubmitPrimariesToKvStores"}
                ELSE {}
    /\ cpc' = "idle"
    /\ UNCHANGED <<tickRest, recoveryVars>>

\* case <-snapshotTopologiesTick
SnapshotTopologiesTick ==
    /\ proc = "running"
    /\ calls' = IF IsLeaderOrActive THEN {"SnapshotTopologies"} ELSE {}
    /\ UNCHANGED <<tickRest, recoveryVars, cpc>>

\* case <-tabletTopoTick
TabletTopoTick ==
    /\ proc = "running"
    /\ calls' = {"RefreshTablets"}
    /\ UNCHANGED <<tickRest, recoveryVars, cpc>>

\* case <-recoveryTick: the clearing operations and the guarded goroutine are spawned
RecoveryTick(r) ==
    /\ proc = "running"
    /\ rpc[r] = "idle"
    /\ IF IsLeaderOrActive
       THEN calls' = RecoveryOps /\ rpc' = [rpc EXCEPT ![r] = "cas"]
       ELSE calls' = {} /\ rpc' = rpc
    /\ UNCHANGED <<tickRest, checkAndRecoverWaitPeriod, recoveryEntrance, passes, cpc>>

RecoveryEnterNoCompare(r) ==
    /\ proc = "running"
    /\ rpc[r] = "cas"
    /\ recoveryEntrance' = 1
    /\ rpc' = [rpc EXCEPT ![r] = "ripe"]
    /\ calls' = {}
    /\ UNCHANGED <<tickRest, checkAndRecoverWaitPeriod, passes, cpc>>

RecoveryEnterDeferFirst(r) ==
    /\ proc = "running"
    /\ rpc[r] = "cas"
    /\ IF recoveryEntrance = 0
       THEN recoveryEntrance' = 1 /\ rpc' = [rpc EXCEPT ![r] = "ripe"]
       ELSE recoveryEntrance' = 0 /\ rpc' = [rpc EXCEPT ![r] = "idle"]
    /\ calls' = {}
    /\ UNCHANGED <<tickRest, checkAndRecoverWaitPeriod, passes, cpc>>

\* if atomic.CompareAndSwapInt64(&recoveryEntrance, 0, 1) { defer ... } else { return }
RecoveryEnter(r) ==
    /\ proc = "running"
    /\ rpc[r] = "cas"
    /\ IF recoveryEntrance = 0
       THEN recoveryEntrance' = 1 /\ rpc' = [rpc EXCEPT ![r] = "ripe"]
       ELSE recoveryEntrance' = recoveryEntrance /\ rpc' = [rpc EXCEPT ![r] = "idle"]
    /\ calls' = {}
    /\ UNCHANGED <<tickRest, checkAndRecoverWaitPeriod, passes, cpc>>

RecoveryRipeCurrentPoll(r) ==
    /\ proc = "running"
    /\ rpc[r] = "ripe"
    /\ IF TimeRipeCurrentPoll
       THEN /\ calls' = {"CheckAndRecover"}
            /\ rpc' = [rpc EXCEPT ![r] = "run"]
            /\ recoveryEntrance' = recoveryEntrance
       ELSE /\ calls' = {}
            /\ rpc' = [rpc EXCEPT ![r] = "idle"]
            /\ recoveryEntrance' = 0
    /\ UNCHANGED <<tickRest, checkAndRecoverWaitPeriod, passes, cpc>>

\* if runCheckAndRecoverOperationsTimeRipe() { CheckAndRecover starts } else { log; the
\* deferred store resets recoveryEntrance }
RecoveryRipe(r) ==
    /\ proc = "running"
    /\ rpc[r] = "ripe"
    /\ IF runCheckAndRecoverOperationsTimeRipe
       THEN /\ calls' = {"CheckAndRecover"}
            /\ rpc' = [rpc EXCEPT ![r] = "run"]
            /\ recoveryEntrance' = recoveryEntrance
       ELSE /\ calls' = {}
            /\ rpc' = [rpc EXCEPT ![r] = "idle"]
            /\ recoveryEntrance' = 0
    /\ UNCHANGED <<tickRest, checkAndRecoverWaitPeriod, passes, cpc>>

\* what a call of CheckAndRecover(nil, nil, false) comes to
RecoveryOutcomes == {"ok", "failed", "panic"}

RecoveryDoneNoDefer(r) ==
    /\ rpc[r] = "run"
    /\ proc = "running"
    /\ \E outcome \in RecoveryOutcomes :
         /\ recoveryEntrance' = IF outcome = "panic" THEN recoveryEntrance ELSE 0
         /\ proc' = IF outcome = "panic" THEN "crashed" ELSE proc
    /\ rpc' = [rpc EXCEPT ![r] = "idle"]
    /\ passes' = IF passes < MaxPasses THEN passes + 1 ELSE passes
    /\ calls' = {}
    /\ UNCHANGED <<isElectedNode, discoveryVars, dispatchVars, seedVars, qpVars, recentDiscoveryOperationKeys, now,
                   instancePollSeconds, signalVars, shardsLockCounter,
                   checkAndRecoverWaitPeriod, cpc>>

\* CheckAndRecover returns or panics; the deferred store runs either way, and a panic
\* then ends the process
RecoveryDone(r) ==
    /\ rpc[r] = "run"
    /\ proc = "running"
    /\ \E outcome \in RecoveryOutcomes :
         /\ recoveryEntrance' = 0
         /\ proc' = IF outcome = "panic" THEN "crashed" ELSE proc
    /\ rpc' = [rpc EXCEPT ![r] = "idle"]
    /\ passes' = IF passes < MaxPasses THEN passes + 1 ELSE passes
    /\ calls' = {}
    /\ UNCHANGED <<isElectedNode, discoveryVars, dispatchVars, seedVars, qpVars, recentDiscoveryOperationKeys, now,
                   instancePollSeconds, signalVars, shardsLockCounter,
                   checkAndRecoverWaitPeriod, cpc>>

\* ------------------------------------------------------------ acceptSignals
Signals == {"SIGHUP", "SIGTERM"}

sigRest == <<isElectedNode, discoveryVars, dispatchVars, seedVars, qpVars, recentDiscoveryOperationKeys, now, recoveryVars, cpc>>

\* signal.Notify(c, ...): the runtime sends without blocking and drops when c is full
DeliverSignal(sig) ==
    /\ proc = "running"
    /\ sigChan' = IF Len(sigChan) < SignalCapacity THEN Append(sigChan, sig) ELSE sigChan
    /\ calls' = {}
    /\ UNCHANGED <<proc, sigRest, instancePollSeconds, shardsLockCounter, spc,
                   hasReceivedSIGTERM, autoExpire, audit, scount, timeoutAt, wakeAt>>

\* case syscall.SIGHUP: audit, config.Reload(), SetExpirePeriod
HandleSighup ==
    /\ proc = "running"
    /\ spc = "wait"
    /\ sigChan # <<>>
    /\ Head(sigChan) = "SIGHUP"
    /\ sigChan' = Tail(sigChan)
    /\ audit' = audit \cup {"reload-configuration"}
    /\ \E p \in PollChoices : instancePollSeconds' = p
    /\ calls' = {}
    /\ UNCHANGED <<proc, sigRest, shardsLockCounter, spc, hasReceivedSIGTERM, autoExpire,
                   scount, timeoutAt, wakeAt>>

HandleSigtermKeepsFlag ==
    /\ proc = "running"
    /\ spc = "wait"
    /\ sigChan # <<>>
    /\ Head(sigChan) = "SIGTERM"
    /\ sigChan' = Tail(sigChan)
    /\ spc' = "stopExpiration"
    /\ calls' = {}
    /\ UNCHANGED <<proc, sigRest, instancePollSeconds, shardsLockCounter, autoExpire,
                   audit, scount, timeoutAt, wakeAt, hasReceivedSIGTERM>>

HandleSigtermDemotes ==
    /\ proc = "running"
    /\ spc = "wait"
    /\ sigChan # <<>>
    /\ Head(sigChan) = "SIGTERM"
    /\ sigChan' = Tail(sigChan)
    /\ hasReceivedSIGTERM' = 1
    /\ isElectedNode' = 0
    /\ spc' = "stopExpiration"
    /\ calls' = {}
    /\ UNCHANGED <<proc, discoveryVars, dispatchVars, seedVars, qpVars, recentDiscoveryOperationKeys, now, recoveryVars,
                   cpc, instancePollSeconds, shardsLockCounter, autoExpire, audit, scount,
                   timeoutAt, wakeAt>>

\* case syscall.SIGTERM: atomic.StoreInt32(&hasReceivedSIGTERM, 1)
HandleSigterm ==
    /\ proc = "running"
    /\ spc = "wait"
    /\ sigChan # <<>>
    /\ Head(sigChan) = "SIGTERM"
    /\ sigChan' = Tail(sigChan)
    /\ hasReceivedSIGTERM' = 1
    /\ spc' = "stopExpiration"
    /\ calls' = {}
    /\ UNCHANGED <<proc, sigRest, instancePollSeconds, shardsLockCounter, autoExpire,
                   audit, scount, timeoutAt, wakeAt>>

\* discoveryMetrics.StopAutoExpiration()
StopAutoExpiration ==
    /\ proc = "running"
    /\ spc = "stopExpiration"
    /\ autoExpire' = FALSE
    /\ spc' = "audit"
    /\ calls' = {}
    /\ UNCHANGED <<proc, sigRest, instancePollSeconds, shardsLockCounter, sigChan,
                   hasReceivedSIGTERM, audit, scount, timeoutAt, wakeAt>>

\* inst.AuditOperation("shutdown", ...); timeout := time.After(*shutdownWaitTime)
AuditShutdown ==
    /\ proc = "running"
    /\ spc = "audit"
    /\ audit' = audit \cup {"shutdown"}
    /\ timeoutAt' = now + ShutdownWaitTime
    /\ spc' = "drain"
    /\ calls' = {}
    /\ UNCHANGED <<proc, sigRest, instancePollSeconds, shardsLockCounter, sigChan,
                   hasReceivedSIGTERM, autoExpire, scount, wakeAt>>

DrainCheckNoTimeout ==
    /\ proc = "running"
    /\ spc = "drain"
    /\ scount' = shardsLockCounter
    /\ IF shardsLockCounter = 0
       THEN spc' = "exit" /\ wakeAt' = wakeAt
       ELSE spc' = "sleep" /\ wakeAt' = now + SleepTime
    /\ calls' = {}
    /\ UNCHANGED <<proc, sigRest, instancePollSeconds, shardsLockCounter, sigChan,
                   hasReceivedSIGTERM, autoExpire, audit, timeoutAt>>

DrainCheckNoWait ==
    /\ proc = "running"
    /\ spc = "drain"
    /\ scount' = shardsLockCounter
    /\ spc' = "exit"
    /\ wakeAt' = wakeAt
    /\ calls' = {}
    /\ UNCHANGED <<proc, sigRest, instancePollSeconds, shardsLockCounter, sigChan,
                   hasReceivedSIGTERM, autoExpire, audit, timeoutAt>>

\* one round of the drain loop: load the counter, return at zero; else return when the
\* timeout has fired, else sleep
DrainCheck ==
    /\ proc = "running"
    /\ spc = "drain"
    /\ scount' = shardsLockCounter
    /\ IF shardsLockCounter = 0 \/ now >= timeoutAt
       THEN spc' = "exit" /\ wakeAt' = wakeAt
       ELSE spc' = "sleep" /\ wakeAt' = now + SleepTime
    /\ calls' = {}
    /\ UNCHANGED <<proc, sigRest, instancePollSeconds, shardsLockCounter, sigChan,
                   hasReceivedSIGTERM, autoExpire, audit, timeoutAt>>

\* time.Sleep(100 * time.Millisecond) ends
DrainWake ==
    /\ proc = "running"
    /\ spc = "sleep"
    /\ now >= wakeAt
    /\ spc' = "drain"
    /\ calls' = {}
    /\ UNCHANGED <<proc, sigRest, instancePollSeconds, shardsLockCounter, sigChan,
                   hasReceivedSIGTERM, autoExpire, audit, scount, timeoutAt, wakeAt>>

\* log.Infof("Shutting down orchestrator"); os.Exit(0)
Exit ==
    /\ proc = "running"
    /\ spc = "exit"
    /\ proc' = "exited"
    /\ spc' = "exited"
    /\ calls' = {}
    /\ UNCHANGED <<sigRest, instancePollSeconds, shardsLockCounter, sigChan,
                   hasReceivedSIGTERM, autoExpire, audit, scount, timeoutAt, wakeAt>>

\* a shard lock is taken or given back somewhere else in the process
LockShard ==
    /\ proc = "running"
    /\ shardsLockCounter < MaxLocks
    /\ shardsLockCounter' = shardsLockCounter + 1
    /\ calls' = {}
    /\ UNCHANGED <<proc, sigRest, instancePollSeconds, signalVars>>

UnlockShard ==
    /\ proc = "running"
    /\ shardsLockCounter > 0
    /\ shardsLockCounter' = shardsLockCounter - 1
    /\ calls' = {}
    /\ UNCHANGED <<proc, sigRest, instancePollSeconds, signalVars>>

\* ------------------------------------------- the select loop of ContinuousDiscovery
dispatchRest == <<isElectedNode, snapshotDiscoveryKeys, queueVars, healthVars, now,
                  instancePollSeconds, recoveryVars, cpc, signalVars, shardsLockCounter,
                  callVars, recentDiscoveryOperationKeys, seedVars, qpVars>>

TimerFireAwaits(tm) ==
    /\ proc = "running"
    /\ \A u \in Timers : spawned[u] = 0
    /\ spawned' = [spawned EXCEPT ![tm] = @ + 1]
    /\ calls' = IF tm = "tabletTopoTick" THEN {"RefreshTablets"} ELSE {}
    /\ UNCHANGED <<proc, dispatchRest>>

\* case <-tm: go func() { ... }(): the loop receives the firing, starts the task's
\* goroutine and is back at the select
TimerFire(tm) ==
    /\ proc = "running"
    /\ spawned[tm] < MaxTasks
    /\ spawned' = [spawned EXCEPT ![tm] = @ + 1]
    /\ calls' = IF tm = "tabletTopoTick" THEN {"RefreshTablets"} ELSE {}
    /\ UNCHANGED <<proc, dispatchRest>>

\* the goroutine of a task of timer tm returns; nothing makes it return
TaskReturn(tm) ==
    /\ proc = "running"
    /\ spawned[tm] > 0
    /\ spawned' = [spawned EXCEPT ![tm] = @ - 1]
    /\ calls' = {}
    /\ UNCHANGED <<proc, dispatchRest>>

\* -------------------------------------------------------- specifications
WorkerStep == \E w \in Workers : WorkerConsume(w) \/ WorkerGate(w) \/ WorkerDiscover(w)

HealthStepOf(T) ==
    \E t \in T :
        \/ HealthTickFire(t)
        \/ HealthElect(t)
        \/ HealthGate(t)
        \/ HealthLock(t)
        \/ HealthRecv(t)
        \/ HealthUnlock(t)
        \/ HealthPush(t)

HealthStep == HealthStepOf(HealthTasks)

\* health ticks that do not overlap: the ticker's normal delivery
SingleHealthStep == HealthStepOf({1})

RequestStep == \E k \in AllKeys : RequestImmediateDiscovery(k)

\* out-of-band requests for one key only
OneRequestStep == RequestImmediateDiscovery(1)

\* the discovery queue, its workers, overlapping health ticks and out-of-band requests
NextQueue == WorkerStep \/ HealthStep \/ RequestStep

SpecQueue == Init /\ [][NextQueue]_vars

RecoveryStep ==
    \E r \in RecoveryTasks :
        RecoveryTick(r) \/ RecoveryEnter(r) \/ RecoveryRipe(r) \/ RecoveryDone(r)

SignalStep ==
    \/ \E sig \in Signals : DeliverSignal(sig)
    \/ HandleSighup
    \/ HandleSigterm
    \/ StopAutoExpiration
    \/ AuditShutdown
    \/ DrainCheck
    \/ DrainWake
    \/ Exit

ReloadStep == DeliverSignal("SIGHUP") \/ HandleSighup

\* the recovery entrance under election changes, configuration reloads and the clock
NextRecovery ==
    SingleHealthStep \/ OneRequestStep \/ RecoveryStep \/ ReloadStep \/ AdvanceTime

SpecRecovery == Init /\ [][NextRecovery]_vars

TickStep ==
    \/ InstancePollTick
    \/ CaretakingTick
    \/ CaretakingKv
    \/ SnapshotTopologiesTick
    \/ TabletTopoTick

\* every tick task of ContinuousDiscovery under election changes and the clock
NextTicks == SingleHealthStep \/ OneRequestStep \/ RecoveryStep \/ TickStep \/ AdvanceTime

SpecTicks == Init /\ [][NextTicks]_vars

WorkerStepOf(W) == \E w \in W : WorkerConsume(w) \/ WorkerGate(w) \/ WorkerDiscover(w)

\* a health tick with nothing waiting on the snapshot channel
HealthStepNoRequests ==
    \/ HealthTickFire(1)
    \/ HealthElect(1)
    \/ HealthGate(1)
    \/ HealthLock(1)
    \/ HealthUnlock(1)
    \/ HealthPush(1)

\* a recovery goroutine inside the warm-up period
RecoveryStepWarmup == RecoveryTick(1) \/ RecoveryEnter(1) \/ RecoveryRipe(1)

\* the signal goroutine while no shard lock is held: the drain never sleeps
SignalStepNoLocks ==
    \/ \E sig \in Signals : DeliverSignal(sig)
    \/ HandleSighup
    \/ HandleSigterm
    \/ StopAutoExpiration
    \/ AuditShutdown
    \/ DrainCheck
    \/ Exit

\* the whole engine inside the warm-up period: a worker, health ticks, every tick task
\* of ContinuousDiscovery and the signal goroutine
NextEngine ==
    \/ WorkerStepOf({1})
    \/ HealthStepNoRequests
    \/ RecoveryStepWarmup
    \/ TickStep
    \/ SignalStepNoLocks

SpecEngine == Init /\ [][NextEngine]_vars

\* the signal goroutine, the shard locks and the clock
NextShutdown == SignalStep \/ LockShard \/ UnlockShard \/ AdvanceTime

SpecShutdown == Init /\ [][NextShutdown]_vars

DiscoverStep ==
    \/ \E k \in AllKeys, force \in BOOLEAN : DiscoverCall(k, force)
    \/ DiscoverThrottle
    \/ DiscoverRead
    \/ DiscoverProbe
    \/ DiscoverReturn

\* calls of DiscoverInstance, forced and not, while time passes, the configuration is
\* reloaded and the cache's janitor runs
NextDiscover == DiscoverStep \/ JanitorRun \/ ReloadStep \/ AdvanceTime

SpecDiscover == Init /\ [][NextDiscover]_vars

\* the steps of the goroutine that ranges over the signal channel
SignalRun ==
    \/ HandleSighup
    \/ HandleSigterm
    \/ StopAutoExpiration
    \/ AuditShutdown
    \/ DrainCheck
    \/ DrainWake
    \/ Exit

\* the signal goroutine is scheduled whenever it can run, and time passes
SpecShutdownFair == SpecShutdown /\ WF_vars(SignalRun) /\ WF_vars(AdvanceTime)

\* a worker, health ticks that do not overlap and out-of-band requests
NextLive == WorkerStepOf({1}) \/ SingleHealthStep \/ OneRequestStep

\* the worker goroutine runs whenever it can, and the health ticker keeps firing
SpecLive ==
    /\ Init /\ [][NextLive]_vars
    /\ WF_vars(WorkerStepOf({1}))
    /\ WF_vars(SingleHealthStep)

\* the select loop and the goroutines it has started
NextDispatch == \E tm \in Timers : TimerFire(tm) \/ TaskReturn(tm)

SpecDispatch == Init /\ [][NextDispatch]_vars

\* instance-poll tasks and the injectSeeds goroutines they start, under election changes
NextSeeds == HealthStepNoRequests \/ InstancePollTick \/ InjectSeeds \/ InjectSeedsDone

SpecSeeds == Init /\ [][NextSeeds]_vars

\* ------------------------------------------------------------------ claims

\* C1: for every key there is at most one outstanding entry, queued or in flight; and
\* push(A), push(A), push(B) on an empty queue leaves two pending entries that two
\* consumes hand out as A and B, with nothing left.
C1_DedupInvariant ==
    /\ \A k \in AllKeys :
         Occurrences(discoveryQueue.pending, k)
            + (IF k \in discoveryQueue.inflight THEN 1 ELSE 0) <= 1
    /\ LET q3 == Push(Push(Push(EmptyQueue, 1), 1), 2)
           c1 == Consume(q3)
           c2 == Consume(c1)
       IN /\ QueueLen(q3) = 2
          /\ Head(q3.pending) = 1 /\ Head(c1.pending) = 2
          /\ ~CanConsume(c2)
          /\ c2.inflight = {1, 2}
          /\ Push(c2, 1) = c2

\* two workers hold A and B, handed out by two consumes, and nothing is left pending
C1_Witness ==
    /\ discoveryQueue.pending = <<>>
    /\ discoveryQueue.inflight = {1, 2}
    /\ \E w1, w2 \in Workers : wkey[w1] = 1 /\ wkey[w2] = 2

\* C2: no two workers are inside DiscoverInstance for the same instance key at once.
C2_NoConcurrentProbe ==
    \A w1, w2 \in Workers :
        (w1 # w2 /\ wpc[w1] = "discover" /\ wpc[w2] = "discover") => wkey[w1] # wkey[w2]

C2_Witness ==
    \E w1, w2 \in Workers :
        /\ w1 # w2
        /\ wpc[w1] = "discover" /\ wpc[w2] = "discover"
        /\ \E t \in HealthTasks : hpc[t] = "push" /\ Head(hkeys[t]) = wkey[w1]

\* C3: whenever a worker is done with a key it consumed, on whatever path, the key has
\* been released.
C3_ReleasedOnEveryPath ==
    [][\A w \in Workers :
          (wpc[w] \in {"gate", "discover"} /\ wpc'[w] \notin {"gate", "discover"})
              => wkey[w] \notin discoveryQueue'.inflight]_vars

\* C4: at most one recovery goroutine is inside the guarded section.
C4_RecoveryMutex == Cardinality({r \in RecoveryTasks : rpc[r] \in {"ripe", "run"}}) <= 1

C4_Witness ==
    \E r1, r2 \in RecoveryTasks : rpc[r1] = "run" /\ rpc[r2] = "cas"

\* C5: the guard is set exactly while a goroutine is inside the guarded section: every
\* way out of it (not ripe, pass done, pass failed, panic) leaves the guard idle.
C5_GuardReleased ==
    /\ recoveryEntrance \in {0, 1}
    /\ recoveryEntrance = 1 <=> \E r \in RecoveryTasks : rpc[r] \in {"ripe", "run"}

\* after a finished pass a later request has acquired the guard
C5_Witness ==
    /\ passes >= 1
    /\ recoveryEntrance = 1
    /\ \E r \in RecoveryTasks : rpc[r] = "run"

\* C6: a request that finds the guard taken ends at once, does not run a pass and
\* leaves the guard as it found it.
C6_SkipLeavesGuard ==
    [][\A r \in RecoveryTasks :
          (rpc[r] = "cas" /\ recoveryEntrance = 1 /\ rpc'[r] # "cas")
              => (rpc'[r] = "idle" /\ recoveryEntrance' = 1 /\ passes' = passes)]_vars

C6_Witness ==
    \E r1, r2 \in RecoveryTasks : rpc[r1] = "ripe" /\ rpc[r2] = "cas" /\ recoveryEntrance = 1

\* C7: CheckAndRecover runs only once checkAndRecoverWaitPeriod, three times the poll
\* interval read at start, has elapsed since ContinuousDiscovery started.
C7_WarmupRespected ==
    /\ checkAndRecoverWaitPeriod \in {WaitFactor * p : p \in PollChoices}
    /\ \A r \in RecoveryTasks :
         rpc[r] = "run" => now - continuousDiscoveryStartTime >= checkAndRecoverWaitPeriod
    /\ "CheckAndRecover" \in calls
         => now - continuousDiscoveryStartTime >= checkAndRecoverWaitPeriod

\* a recovery goroutine holds the guard before the period has elapsed, although three
\* times the reloaded poll interval has
C7_Witness ==
    /\ \E r \in RecoveryTasks : rpc[r] = "ripe"
    /\ now - continuousDiscoveryStartTime < checkAndRecoverWaitPeriod
    /\ TimeRipeCurrentPoll

GatedOps ==
    InstancePollOps \cup CaretakingOps \cup RecoveryOps
        \cup {"SubmitPrimariesToKvStores", "SnapshotTopologies"}

C9_FailedElectionDegrades ==
    [][\A t \in HealthTasks :
          helect[t] = "err" =>
              /\ ~(HealthPush(t) /\ IsValid(Head(hkeys[t])))
              /\ (hpc[t] # "idle" /\ hpc'[t] = "idle") => isElectedNode' = 0]_vars

\* C10: the process exits only after the counter was loaded as zero or the timeout has
\* fired.
C10_DrainSafety ==
    /\ spc \in {"exit", "exited"} => (scount = 0 \/ now >= timeoutAt)
    /\ spc \in {"exit", "exited"} => (hasReceivedSIGTERM = 1 /\ timeoutAt # NoTime)
    /\ proc = "exited" <=> spc = "exited"
    /\ spc = "sleep" => (scount > 0 /\ wakeAt <= timeoutAt + SleepTime)

\* the drain slept, then loaded the counter as zero and the process exited before the
\* timeout
C10_Witness ==
    /\ proc = "exited"
    /\ scount = 0
    /\ wakeAt # NoTime
    /\ now < timeoutAt

MarkerUnexpired ==
    LET m == recentDiscoveryOperationKeys[dkey]
    IN m.at # NoTime /\ now - m.at <= m.ttl

\* a call that is not forced and whose key is valid takes the step of the cache's Add
ThrottleStep == dpc = "resolve" /\ dpc' # "resolve" /\ IsValid(dkey) /\ ~dforce

\* a call that is not forced comes back from inst.ReadInstance
StoreReadStep == dpc = "read" /\ dpc' # "read" /\ ~dforce

\* a call that found the unexpired marker returns: no store read, no probe, the marker
\* as it was; a call that found none stores a marker for the current poll interval and
\* reads the store
ThrottleHolds ==
    /\ ThrottleStep =>
          IF MarkerUnexpired
          THEN /\ dpc' = "return" /\ doutcome' = "recent"
               /\ calls' = {}
               /\ recentDiscoveryOperationKeys' = recentDiscoveryOperationKeys
          ELSE /\ dpc' = "read"
               /\ calls' = {"ReadInstance"}
               /\ recentDiscoveryOperationKeys'[dkey] = [at |-> now, ttl |-> instancePollSeconds]
    /\ (dpc = "return" /\ doutcome = "recent") =>
          (dpc' \in {"return", "idle"} /\ calls' = {} /\ discoveriesCounter' = 0)

\* C12: a call that is not forced and finds an unexpired marker (as at t + T/2) neither
\* reads the store nor probes; one that finds the marker expired (as at t + 2T) reads
\* the store, and probes unless the store has the instance up to date.
C12_ThrottleInvariant ==
    [][/\ ThrottleHolds
       /\ StoreReadStep =>
             \/ dpc' = "probe" /\ calls' = {"ReadTopologyInstanceBufferable"}
             \/ dpc' = "return" /\ doutcome' = "uptodate" /\ calls' = {}]_vars

\* C12 as stated: a call that finds the marker expired does probe.
C12_AsStated ==
    [][/\ ThrottleHolds
       /\ StoreReadStep => dpc' = "probe"]_vars

\* a call made half a poll interval after the marker was stored has ended without a probe
C12_Witness ==
    /\ dpc = "idle"
    /\ doutcome = "recent"
    /\ ~dforce
    /\ 2 * (now - recentDiscoveryOperationKeys[dkey].at) = recentDiscoveryOperationKeys[dkey].ttl
    /\ discoveriesCounter = 0

\* C14: a call emits one metric exactly when it invoked the probe; the metric carries
\* the three latencies and the probe's error; a failed probe is counted, and the call
\* returns to its caller all the same.
C14_MetricPerProbe ==
    /\ Len(discoveryMetrics) = (IF dpc \in {"return", "idle"} THEN discoveriesCounter ELSE 0)
    /\ discoveriesCounter = (IF dpc = "probe" \/ doutcome \in {"probed", "failed"} THEN 1 ELSE 0)
    /\ failedDiscoveriesCounter = (IF doutcome = "failed" THEN 1 ELSE 0)
    /\ \A i \in 1..Len(discoveryMetrics) :
         LET metric == discoveryMetrics[i]
         IN /\ metric.InstanceKey = dkey
            /\ metric.BackendLatency >= 0 /\ metric.InstanceLatency >= 0
            /\ metric.TotalLatency >= metric.BackendLatency + metric.InstanceLatency
            /\ metric.Err = (IF doutcome = "failed" THEN "err" ELSE "none")
    /\ doutcome = "failed" => (proc = "running" /\ dpc \in {"return", "idle"})

\* a call whose probe failed has returned, with the failure counted and in its metric
C14_Witness ==
    /\ dpc = "idle"
    /\ doutcome = "failed"
    /\ failedDiscoveriesCounter = 1
    /\ Len(discoveryMetrics) = 1
    /\ discoveryMetrics[1].Err = "err"
    /\ discoveryMetrics[1].InstanceLatency > 0

\* C15: a call whose probe took longer than the poll interval ends with one
\* poll-seconds-exceeded increment and one metric whose total latency is above the
\* interval; a call that took no longer than the interval ends with no increment.
C15_PollSecondsExceeded ==
    [][/\ instancePollSecondsExceededCounter' <= 1
       /\ dpc' # "idle" => instancePollSecondsExceededCounter' = 0
       /\ (dpc = "return" /\ dpc' = "idle") =>
             /\ (/\ Len(discoveryMetrics) = 1
                 /\ discoveryMetrics[1].InstanceLatency > instancePollSeconds)
                   => /\ instancePollSecondsExceededCounter' = 1
                      /\ Len(discoveryMetrics') = 1
                      /\ discoveryMetrics'[1].TotalLatency > instancePollSeconds
             /\ now - latency.totalStart <= instancePollSeconds
                   => instancePollSecondsExceededCounter' = 0]_vars

\* a call whose probe took longer than the poll interval has returned
C15_Witness ==
    /\ dpc = "idle"
    /\ instancePollSecondsExceededCounter = 1
    /\ Len(discoveryMetrics) = 1
    /\ discoveryMetrics[1].InstanceLatency > instancePollSeconds
    /\ discoveryMetrics[1].TotalLatency > instancePollSeconds

\* the queue holds key k: pending or in flight
Outstanding(q, k) == k \in Range(q.pending) \/ k \in q.inflight

\* worker w takes its step at the leadership test of line 240
GateStepOf(w) == wpc[w] = "gate" /\ wpc'[w] # "gate"

\* C16: a worker that has consumed a key and finds the process not leader or active
\* does not start DiscoverInstance: it releases the key and consumes again, the key
\* is then nowhere in the queue and in no worker's hands, the step adds it to no
\* other collection, and a key becomes outstanding again only by a health tick's push.
C16_DemotedWorkerDrops ==
    [][/\ \A w \in Workers :
            (GateStepOf(w) /\ ~IsLeaderOrActive) =>
               /\ wpc'[w] = "consume"
               /\ wkey'[w] = NoKey
               /\ discoveryQueue' = Release(discoveryQueue, wkey[w])
               /\ ~Outstanding(discoveryQueue', wkey[w])
               /\ \A v \in Workers : wkey'[v] # wkey[w]
               /\ UNCHANGED <<snapshotDiscoveryKeys, hkeys, isElectedNode>>
               /\ calls' = {}
       /\ \A k \in Keys :
            (~Outstanding(discoveryQueue, k) /\ Outstanding(discoveryQueue', k)) =>
               \E t \in HealthTasks : hpc[t] = "push" /\ Head(hkeys[t]) = k]_vars

\* a worker holding a consumed key stands at the leadership test after a demotion,
\* while another worker is inside DiscoverInstance
C16_Witness ==
    \E w, v \in Workers :
        /\ wpc[w] = "gate" /\ wkey[w] \in discoveryQueue.inflight
        /\ wpc[v] = "discover"
        /\ ~IsLeaderOrActive

\* health tick t takes its step at the test of line 368
HealthGateStepOf(t) == hpc[t] = "gate" /\ hpc'[t] # "gate"

\* C17: a health tick that finds the process elected at line 368 reads the outdated
\* keys, appends every key that was in the snapshot channel when it took the mutex,
\* and pushes each valid key of that list, in order, ending only when the list is
\* used up; an invalid key is skipped and never reaches the queue or a worker. A
\* tick that finds the process not elected ends there: the queue and the snapshot
\* channel are as they were.
C17_HealthTickPushes ==
    /\ [](~Outstanding(discoveryQueue, InvalidKey) /\ \A w \in Workers : wkey[w] # InvalidKey)
    /\ [](\A t \in HealthTasks :
            /\ (hpc[t] = "recv" => snapshotDiscoveryKeysMutex = t /\ hcount[t] <= Len(snapshotDiscoveryKeys))
            /\ (hpc[t] = "push" => hkeys[t] # <<>>))
    /\ [][\A t \in HealthTasks :
            /\ HealthGateStepOf(t) =>
                  /\ UNCHANGED <<discoveryQueue, snapshotDiscoveryKeys>>
                  /\ IF isElectedNode = 1
                     THEN hpc'[t] = "lock" /\ hkeys'[t] \in OutdatedLists
                     ELSE hpc'[t] = "idle" /\ hkeys' = hkeys
            /\ (hpc[t] = "lock" /\ hpc'[t] # "lock") =>
                  /\ hpc'[t] = "recv" /\ hcount'[t] = Len(snapshotDiscoveryKeys)
                  /\ UNCHANGED <<discoveryQueue, snapshotDiscoveryKeys, hkeys>>
            /\ (hpc[t] = "recv" /\ hcount'[t] # hcount[t]) =>
                  /\ hcount'[t] = hcount[t] - 1
                  /\ hkeys'[t] = Append(hkeys[t], Head(snapshotDiscoveryKeys))
                  /\ snapshotDiscoveryKeys' = Tail(snapshotDiscoveryKeys)
                  /\ discoveryQueue' = discoveryQueue
            /\ (hpc[t] = "recv" /\ hpc'[t] # "recv") =>
                  /\ hcount[t] = 0
                  /\ hpc'[t] = IF hkeys[t] = <<>> THEN "idle" ELSE "push"
                  /\ UNCHANGED <<discoveryQueue, snapshotDiscoveryKeys, hkeys>>
            /\ (hpc[t] = "push" /\ hkeys'[t] # hkeys[t]) =>
                  /\ hkeys'[t] = Tail(hkeys[t])
                  /\ hpc'[t] = IF Tail(hkeys[t]) = <<>> THEN "idle" ELSE "push"
                  /\ snapshotDiscoveryKeys' = snapshotDiscoveryKeys
                  /\ IF IsValid(Head(hkeys[t]))
                     THEN /\ discoveryQueue' = Push(discoveryQueue, Head(hkeys[t]))
                          /\ Outstanding(discoveryQueue', Head(hkeys[t]))
                     ELSE discoveryQueue' = discoveryQueue
            /\ (hpc[t] = "push" /\ hpc'[t] # "push") => hkeys'[t] = <<>>
            /\ hkeys'[t] # hkeys[t] => hpc[t] \in {"gate", "recv", "push"}]_vars

\* a tick is about to push a merged list: an invalid outdated key followed by a valid
\* key taken from the snapshot channel, which is not yet in the queue
C17_Witness ==
    \E t \in HealthTasks :
        /\ hpc[t] = "push"
        /\ Len(hkeys[t]) = MaxOutdated + MaxSnapshotLen
        /\ Head(hkeys[t]) = InvalidKey
        /\ hkeys[t][Len(hkeys[t])] \in Keys
        /\ ~Outstanding(discoveryQueue, hkeys[t][Len(hkeys[t])])
        /\ snapshotDiscoveryKeys = <<>>

JustBecameLeaderTasks == {"RegisterNode", "ExpireMaintenance"}

\* C18: a health tick spawns RegisterNode and ExpireMaintenance exactly when the flag
\* was false when the tick started and the election of that same tick succeeded, and
\* spawns nothing else there, also when the ticks overlap.
C18_SpawnedOncePerTransition ==
    [][\A t \in HealthTasks :
          HealthGateStepOf(t) =>
              /\ (calls' = JustBecameLeaderTasks) <=> (~hwas[t] /\ helect[t] = "won")
              /\ calls' \in {{}, JustBecameLeaderTasks}]_vars

\* C19: isElectedNode is always 0 or 1, and a step changes it only if it is the step
\* of a health tick in which AttemptElection returns and the flag is stored; the steps
\* of the workers, of the tick tasks and of the signal goroutine leave it as it is.
C19_ElectionFlagFrame ==
    /\ [](isElectedNode \in {0, 1})
    /\ [][isElectedNode' # isElectedNode =>
            \E t \in HealthTasks :
                /\ hpc[t] = "attempt" /\ hpc'[t] = "gate"
                /\ helect'[t] \in ElectionResults
                /\ isElectedNode' = (IF helect'[t] = "won" THEN 1 ELSE 0)]_vars

\* the process is still elected after a reload and a termination signal were handled,
\* a worker went through a call of DiscoverInstance and a recovery tick has fired
C19_Witness ==
    /\ isElectedNode = 1
    /\ hasReceivedSIGTERM = 1
    /\ "reload-configuration" \in audit
    /\ wpc[1] = "discover"
    /\ rpc[1] # "idle"

\* C20: termination is handled in order. Auto-expiration is stopped only with the
\* terminating flag set, the shutdown audit record is emitted only with
\* auto-expiration stopped, the drain (its timeout, its loads of the counter, its
\* sleeps) runs only after the audit record, and the process exits only from the
\* end of the drain; the flag is set only by the handling of SIGTERM, never by a
\* reload, and once 1 it stays 1.
C20_ShutdownOrder ==
    /\ [](/\ hasReceivedSIGTERM \in {0, 1}
          /\ (spc # "wait") <=> (hasReceivedSIGTERM = 1)
          /\ ~autoExpire => (hasReceivedSIGTERM = 1 /\ spc # "stopExpiration")
          /\ ("shutdown" \in audit) => (~autoExpire /\ timeoutAt # NoTime)
          /\ (spc \in {"drain", "sleep", "exit", "exited"} \/ timeoutAt # NoTime \/ wakeAt # NoTime)
                => "shutdown" \in audit
          /\ (proc = "exited") <=> (spc = "exited")
          /\ (spc \in {"exit", "exited"}) => (scount = 0 \/ now >= timeoutAt))
    /\ [][/\ hasReceivedSIGTERM = 1 => hasReceivedSIGTERM' = 1
          /\ hasReceivedSIGTERM' # hasReceivedSIGTERM =>
                (spc = "wait" /\ sigChan # <<>> /\ Head(sigChan) = "SIGTERM")
          /\ autoExpire' # autoExpire => (spc = "stopExpiration" /\ spc' = "audit")
          /\ ("shutdown" \in audit' \ audit) => (spc = "audit" /\ spc' = "drain")
          /\ proc' # proc => (spc = "exit" /\ proc' = "exited")]_vars

\* the process has exited after a reload was handled and the drain had to wait for
\* a shard lock
C20_Witness ==
    /\ proc = "exited"
    /\ "reload-configuration" \in audit
    /\ wakeAt # NoTime
    /\ scount = 0

\* key k is due for a poll: it waits on the snapshot channel, or a health tick holds
\* it in the list it read from the store and merged
Due(k) ==
    \/ k \in Range(snapshotDiscoveryKeys)
    \/ \E t \in HealthTasks : hpc[t] \in {"lock", "recv", "push"} /\ k \in Range(hkeys[t])

\* a worker has passed key k to DiscoverInstance
Discovered(k) == \E w \in Workers : wpc[w] = "discover" /\ wkey[w] = k

\* the store lists no valid key as outdated: what a tick holds at the mutex is what
\* inst.ReadOutdatedInstanceKeys() returned to it
StoreListsNoValidKey ==
    \A t \in HealthTasks : hpc[t] = "lock" => Range(hkeys[t]) \cap Keys = {}

\* C13: with the worker and the ticks scheduled fairly, in every run in which no
\* goroutine panics, the store lists no valid key of its own and the process,
\* whatever leadership it lost on the way, is in the end elected for good, every
\* valid key that is due (here: requested through the snapshot channel) is
\* eventually passed to DiscoverInstance by a worker.
C13_DiscoveryLiveness ==
    (<>[](isElectedNode = 1) /\ [](proc = "running") /\ []StoreListsNoValidKey) =>
        \A k \in Keys : Due(k) ~> Discovered(k)

\* without churn the path is live: a due key is passed to DiscoverInstance whenever the
\* process stays elected from then on and no goroutine panics
StableLeadershipLiveness ==
    \A k \in Keys :
        []((Due(k) /\ [](isElectedNode = 1) /\ [](proc = "running")) => <>Discovered(k))

\* C21: the select loop never waits for a task it started. While the process runs,
\* the loop can serve a firing of any timer whatever tasks are unfinished (here up
\* to MaxTasks per timer), and serving a firing starts exactly one task, of that
\* timer; the only other change of the set of tasks is a task's own return.
C21_DispatcherNeverWaits ==
    /\ [](proc = "running" =>
            \A tm \in Timers : spawned[tm] < MaxTasks => ENABLED TimerFire(tm))
    /\ [][\E tm \in Timers :
            \/ spawned' = [spawned EXCEPT ![tm] = @ + 1]
            \/ spawned' = [spawned EXCEPT ![tm] = @ - 1]]_vars

\* firings of every timer were served while earlier tasks of the same and of other
\* timers had not finished
C21_Witness ==
    /\ spawned["caretakingTick"] = MaxTasks
    /\ \A tm \in Timers : spawned[tm] >= 1

\* health tick t is inside the drain of lines 385-391 with keys left to receive
Draining(t) == hpc[t] = "recv" /\ hcount[t] > 0

\* C22: the drain of the snapshot channel never blocks. At most one health tick is
\* between the Lock and the Unlock; a tick with receives left finds a key in the
\* channel and, while the process runs, its receive can run; the keys it counted stay at the front of the
\* channel, in order, while other goroutines run (senders only append); each
\* receive takes the front key into the list of the draining tick and of no other,
\* and nothing else takes a key from the channel.
C22_DrainNeverBlocks ==
    /\ [](\A t, u \in HealthTasks : (hpc[t] = "recv" /\ hpc[u] = "recv") => t = u)
    /\ [](\A t \in HealthTasks :
            Draining(t) =>
                /\ snapshotDiscoveryKeys # <<>>
                /\ proc = "running" => ENABLED HealthRecv(t))
    /\ [][/\ \A t \in HealthTasks :
              (Draining(t) /\ hpc'[t] = "recv") =>
                 IF hcount'[t] = hcount[t]
                 THEN SubSeq(snapshotDiscoveryKeys', 1, hcount[t]) =
                          SubSeq(snapshotDiscoveryKeys, 1, hcount[t])
                 ELSE /\ hcount'[t] = hcount[t] - 1
                      /\ hkeys'[t] = Append(hkeys[t], Head(snapshotDiscoveryKeys))
                      /\ snapshotDiscoveryKeys' = Tail(snapshotDiscoveryKeys)
                      /\ \A u \in HealthTasks \ {t} : hkeys'[u] = hkeys[u]
          /\ \A t \in HealthTasks : Draining(t) => hpc'[t] = "recv"
          /\ Len(snapshotDiscoveryKeys') < Len(snapshotDiscoveryKeys) =>
                \E t \in HealthTasks : Draining(t) /\ hcount'[t] = hcount[t] - 1]_vars

\* one health tick is draining a key it counted while another waits for the mutex
C22_Witness ==
    \E t, u \in HealthTasks :
        /\ Draining(t) /\ snapshotDiscoveryKeysMutex = t
        /\ hpc[u] = "lock" /\ t # u
        /\ Len(snapshotDiscoveryKeys) = MaxSnapshotLen

\* C23: the seed list is processed at most once in a run. The function given to
\* seedOnce.Do runs only from the fresh Once, in a goroutine started by an
\* instance-poll task, and such a goroutine is started only by a task that found the
\* process elected; from the moment one is started the processing can take place
\* without any further firing, and once the Once has left the fresh state every
\* later goroutine returns without processing anything.
C23_SeedsInjectedOnce ==
    /\ [](seedRuns <= 1 /\ (seedOnce = "fresh" <=> seedRuns = 0))
    /\ []((proc = "running" /\ seedCallers > 0 /\ seedOnce = "fresh") => ENABLED InjectSeeds)
    /\ [][/\ seedRuns' # seedRuns =>
                (seedOnce = "fresh" /\ seedCallers > 0 /\ seedRuns' = 1 /\ calls' = {"InjectSeed"})
          /\ seedCallers' > seedCallers =>
                (IsLeaderOrActive /\ seedCallers' = seedCallers + 1 /\ "injectSeeds" \in calls')
          /\ ("injectSeeds" \in calls') => IsLeaderOrActive
          /\ seedOnce # "fresh" => (seedOnce' # "fresh" /\ seedRuns' = seedRuns)]_vars

\* the seeds were processed once and, after a demotion, a goroutine started by a later
\* instance-poll task is still on its way to seedOnce.Do
C23_Witness ==
    /\ seedOnce = "done"
    /\ seedRuns = 1
    /\ seedCallers > 0
    /\ ~IsLeaderOrActive

\* ---- the claim about CreateQPFromSelect
\* an entry of the select list that is a call of an aggregate function
IsAggrItem(it) == it.type = "AliasedExpr" /\ it.Expr.type = "FuncExpr" /\ IsAggregate(it.Expr)
\* the select list has both kinds of entries and the statement has no GROUP BY clause
MixedWithoutGroupBy ==
    /\ \E i \in 1..Len(sel.SelectExprs) : IsAggrItem(sel.SelectExprs[i])
    /\ \E i \in 1..Len(sel.SelectExprs) : ~IsAggrItem(sel.SelectExprs[i])
    /\ sel.GroupBy = <<>>
IsOffset(e) == e.type = "Literal" /\ e.Name = "IntVal"
\* what an expression of ORDER BY or GROUP BY is ordered on: an integer literal n stands
\* for the n-th entry of the select list, by its alias when it has one
OrderedOn(e) ==
    IF IsOffset(e) /\ Atoi(e.Val) \in 1..Len(sel.SelectExprs)
    THEN LET col == sel.SelectExprs[Atoi(e.Val)]
         IN  IF col.As # "" THEN ColName("", col.As) ELSE col.Expr
    ELSE e
InnerExprs(n) == {qpResult.qp.OrderExprs[j].Inner.Expr : j \in 1..n}

====
